---- MODULE Spec2Model ----
(***************************************************************************)
(* Model of the base16 <-> VS Code theme tools:                            *)
(*   scripts/vscode.py              colour normaliser, distances, nearest  *)
(*   scripts/template_generator.py  theme -> Jinja2 template               *)
(*   scripts/theme_builder.py       template + palette -> theme            *)
(*   libs/exceptions.py             TemplateNotFoundError                  *)
(*   scripts/fetcher.py             bounded-concurrency batch download     *)
(*                                                                         *)
(* A Python str is a sequence of one-character strings.  A slot name or a  *)
(* metadata name inside a placeholder is kept as one token of that         *)
(* sequence.  An Optional value is a sequence of length 0 (None) or 1.     *)
(* A call that may raise yields [raised |-> BOOLEAN, value |-> ...].       *)
(* The parameter lib of the matching functions is the colour library:      *)
(* coloraide's Delta E 2000 for each pair of different colours.            *)
(***************************************************************************)
EXTENDS Integers, Sequences, FiniteSets, TLC

VARIABLES palette, threshold, deltaE, op, color, result, theme, template,
          binding, output, builder

\* The batch download of scripts/fetcher.py: the files and the cap it was
\* called with, the value of the trio.Semaphore, where each download task
\* stands and how its download went, the progress bar's count, the files an
\* error was printed for, the files written, and the nursery's state.
VARIABLES files, batch, semaphore, task, outcome, bar, reported, written,
          nursery

toolVars == <<palette, threshold, deltaE, op, color, result, theme, template,
              binding, output, builder>>

fetchVars == <<files, batch, semaphore, task, outcome, bar, reported, written,
               nursery>>

vars == <<toolVars, fetchVars>>

(***************************************************************************)
(* Python str helpers                                                      *)
(***************************************************************************)

UpperLetters == <<"A", "B", "C", "D", "E", "F", "G">>

LowerLetters == <<"a", "b", "c", "d", "e", "f", "g">>

HexDigits == <<"0", "1", "2", "3", "4", "5", "6", "7", "8", "9",
               "a", "b", "c", "d", "e", "f">>

\* None, as an argument typed str.
None == <<"<None>">>

\* `not color`: None and the empty string are falsy.
Falsy(s) == s = None \/ s = <<>>

LowerChar(ch) ==
    IF \E i \in DOMAIN UpperLetters : UpperLetters[i] = ch
    THEN LowerLetters[CHOOSE i \in DOMAIN UpperLetters : UpperLetters[i] = ch]
    ELSE ch

\* str.lower()
Lower(s) == [i \in 1..Len(s) |-> LowerChar(s[i])]

\* s[a:b] with Python's clamping (0 <= a <= b).
Slice(s, a, b) == SubSeq(s, a + 1, IF b < Len(s) THEN b ELSE Len(s))

RECURSIVE LStripChar(_, _)
\* str.lstrip(ch): every leading ch is removed.
LStripChar(s, ch) ==
    IF s # <<>> /\ Head(s) = ch THEN LStripChar(Tail(s), ch) ELSE s

RECURSIVE RStripChar(_, _)
RStripChar(s, ch) ==
    IF s # <<>> /\ s[Len(s)] = ch
    THEN RStripChar(SubSeq(s, 1, Len(s) - 1), ch)
    ELSE s

\* str.strip(): leading and trailing whitespace is removed.
Strip(s) == RStripChar(LStripChar(s, " "), " ")

IsHexChar(ch) == \E i \in DOMAIN HexDigits : HexDigits[i] = LowerChar(ch)

HexVal(ch) == (CHOOSE i \in DOMAIN HexDigits : HexDigits[i] = LowerChar(ch)) - 1

AllHex(s) == \A i \in 1..Len(s) : IsHexChar(s[i])

RECURSIVE HexNumber(_)
HexNumber(s) ==
    IF s = <<>> THEN 0
    ELSE 16 * HexNumber(SubSeq(s, 1, Len(s) - 1)) + HexVal(s[Len(s)])

\* int(t, 16) on text without surrounding whitespace: every character has to
\* be a hex digit, or ValueError is raised.
ParseHex(t) ==
    IF t # <<>> /\ AllHex(t)
    THEN [raised |-> FALSE, value |-> HexNumber(t)]
    ELSE [raised |-> TRUE, value |-> 0]

\* int(s, 16): surrounding whitespace is ignored.
IntBase16(s) == ParseHex(Strip(s))

(***************************************************************************)
(* scripts/vscode.py: colour normaliser                                    *)
(***************************************************************************)

\* normalize_color without .lower()
normalize_color_keeps_case(c) ==
    IF Falsy(c) THEN <<>> ELSE LStripChar(Strip(c), "#")

normalize_color(c) ==
    IF Falsy(c) THEN <<>> ELSE LStripChar(Strip(Lower(c)), "#")

\* The `if len(normalized) == 8` of strip_alpha.
DropAlpha(normalized) ==
    IF Len(normalized) = 8 THEN Slice(normalized, 0, 6) ELSE normalized

strip_alpha(c) == DropAlpha(normalize_color(c))

\* `return (r, g, b)`, reached only when none of the three int() calls raised.
Channels(r, g, b) ==
    IF r.raised \/ g.raised \/ b.raised
    THEN [raised |-> TRUE, value |-> <<>>]
    ELSE [raised |-> FALSE, value |-> <<r.value, g.value, b.value>>]

\* The body of hex_to_rgb after normalisation.
DecodeRgb(normalized) ==
    IF Len(normalized) >= 6
    THEN Channels(IntBase16(Slice(normalized, 0, 2)),
                  IntBase16(Slice(normalized, 2, 4)),
                  IntBase16(Slice(normalized, 4, 6)))
    ELSE [raised |-> FALSE, value |-> <<0, 0, 0>>]

\* Result of hex_to_rgb: <<r, g, b>>, or ValueError out of int(..., 16).
hex_to_rgb(hex_color) == DecodeRgb(normalize_color(hex_color))

\* float("inf") of find_closest_base16_color, on the scale of rgb_distance.
Infinity == 3 * 255 * 255 + 1

Square(n) == n * n

\* rgb_distance returns math.sqrt(d); the model keeps d, the squared distance
\* (sqrt is strictly increasing, so every comparison is the same).
Euclid(c1, c2) ==
    IF c1.raised \/ c2.raised
    THEN [raised |-> TRUE, value |-> 0]
    ELSE [raised |-> FALSE,
          value |-> Square(c1.value[1] - c2.value[1])
                  + Square(c1.value[2] - c2.value[2])
                  + Square(c1.value[3] - c2.value[3])]

rgb_distance(color1, color2) ==
    Euclid(hex_to_rgb(strip_alpha(color1)), hex_to_rgb(strip_alpha(color2)))

(***************************************************************************)
(* Python dict: a sequence of <<key, value>> pairs in insertion order, no  *)
(* key twice.                                                              *)
(***************************************************************************)

DictKeys(d) == [i \in 1..Len(d) |-> d[i][1]]

DictHas(d, k) == \E i \in 1..Len(d) : d[i][1] = k

DictGet(d, k) == d[CHOOSE i \in 1..Len(d) : d[i][1] = k][2]

\* A dict whose first value for a key stays.
DictSetKeepsFirst(d, k, v) ==
    IF DictHas(d, k) THEN d ELSE Append(d, <<k, v>>)

\* d[k] = v: an existing key keeps its position and takes the new value.
DictSet(d, k, v) ==
    IF DictHas(d, k)
    THEN [i \in 1..Len(d) |-> IF d[i][1] = k THEN <<k, v>> ELSE d[i]]
    ELSE Append(d, <<k, v>>)

RECURSIVE DictUpdate(_, _)
\* d.update(e)
DictUpdate(d, e) ==
    IF e = <<>> THEN d
    ELSE DictUpdate(DictSet(d, e[1][1], e[1][2]), Tail(e))

(***************************************************************************)
(* scripts/vscode.py: perceptual distance and nearest slot                 *)
(***************************************************************************)

\* Color("#" + c) of coloraide reads the CSS hex forms #rgb, #rgba, #rrggbb
\* and #rrggbbaa; anything else raises, which delta_e_distance catches.
IsCssHex(c) == Len(c) \in {3, 4, 6, 8} /\ AllHex(c)

\* The opaque #rrggbb colour a CSS hex form denotes (Delta E ignores alpha).
CssColor(c) ==
    IF Len(c) \in {3, 4}
    THEN <<c[1], c[1], c[2], c[2], c[3], c[3]>>
    ELSE Slice(c, 0, 6)

\* color_a.delta_e(color_b, method="2000") inside the try block: None (<<>>)
\* when either colour does not parse, 0 for one colour, and otherwise what the
\* library computes: lib holds its answers for the colours in play.
DeltaE2000(c1, c2, lib) ==
    IF ~IsCssHex(c1) \/ ~IsCssHex(c2) THEN <<>>
    ELSE IF CssColor(c1) = CssColor(c2) THEN <<0>>
    ELSE <<lib[<<CssColor(c1), CssColor(c2)>>]>>

delta_e_distance(color1, color2, lib) ==
    DeltaE2000(strip_alpha(color1), strip_alpha(color2), lib)

\* The body of the for loop of find_closest_base16_color for one entry, once
\* rgb_dist is known.  best is (closest_key, min_rgb_dist, min_delta_e).
Closer(best, base16_key, base16_color, rgb_dist, target_stripped, lib) ==
    IF rgb_dist < best.rgb
    THEN [key |-> base16_key, rgb |-> rgb_dist,
          delta_e |-> delta_e_distance(target_stripped, base16_color, lib)]
    ELSE best

\* One iteration: rgb_distance may raise, which ends the search.
ClosestStep(target_stripped, item, best, rgb_dist, lib) ==
    IF rgb_dist.raised THEN [raised |-> TRUE, value |-> best]
    ELSE [raised |-> FALSE,
          value |-> Closer(best, item[1], item[2], rgb_dist.value,
                           target_stripped, lib)]

RECURSIVE ClosestLoop(_, _, _, _)
\* The for loop over base16_palette.items(); acc is the loop state, or the
\* ValueError rgb_distance raised.
ClosestLoop(target_stripped, items, acc, lib) ==
    IF items = <<>> \/ acc.raised THEN acc
    ELSE ClosestLoop(target_stripped, Tail(items),
                     ClosestStep(target_stripped, items[1], acc.value,
                                 rgb_distance(target_stripped, items[1][2]), lib),
                     lib)

find_closest_base16_color(target_color, base16_palette, lib) ==
    IF base16_palette = <<>>
    THEN [raised |-> FALSE,
          value |-> [key |-> "unknown", rgb |-> Infinity, delta_e |-> <<>>]]
    ELSE ClosestLoop(strip_alpha(target_color), base16_palette,
                     [raised |-> FALSE,
                      value |-> [key |-> "", rgb |-> Infinity, delta_e |-> <<>>]],
                     lib)

(***************************************************************************)
(* scripts/vscode.py: the analyzer                                         *)
(***************************************************************************)

RECURSIVE LookupLoop(_, _)
\* base16_lookup[normalize_color(color)] = base16_key for every slot.
LookupLoop(items, base16_lookup) ==
    IF items = <<>> THEN base16_lookup
    ELSE LookupLoop(Tail(items),
             DictSet(base16_lookup, normalize_color(items[1][2]), items[1][1]))

\* A match on the full normalised form alone.
MatchFullOnly(c, base16_lookup) ==
    IF DictHas(base16_lookup, normalize_color(c))
    THEN <<DictGet(base16_lookup, normalize_color(c))>>
    ELSE <<>>

\* The slot of one colour, full normalised form first and alpha-stripped
\* form second; None when neither is in the lookup.
MatchSlot(c, base16_lookup) ==
    IF DictHas(base16_lookup, normalize_color(c))
    THEN <<DictGet(base16_lookup, normalize_color(c))>>
    ELSE IF strip_alpha(c) # <<>> /\ DictHas(base16_lookup, strip_alpha(c))
    THEN <<DictGet(base16_lookup, strip_alpha(c))>>
    ELSE <<>>

\* mapping[base16_key].append(entry) on a defaultdict(list).
AppendTo(mapping, base16_key, entry) ==
    DictSet(mapping, base16_key,
            Append(IF DictHas(mapping, base16_key)
                   THEN DictGet(mapping, base16_key) ELSE <<>>, entry))

\* One iteration of the loop over vscode_colors.items().
MapStep(acc, entry, slot) ==
    IF slot # <<>>
    THEN [mapping |-> AppendTo(acc.mapping, slot[1], entry), unmapped |-> acc.unmapped]
    ELSE [mapping |-> acc.mapping, unmapped |-> Append(acc.unmapped, entry)]

RECURSIVE MapLoop(_, _, _)
MapLoop(items, base16_lookup, acc) ==
    IF items = <<>> THEN acc
    ELSE MapLoop(Tail(items), base16_lookup,
                 MapStep(acc, items[1], MatchSlot(items[1][2], base16_lookup)))

\* `if unmapped: mapping["unmapped"] = unmapped`
WithUnmapped(acc) ==
    IF acc.unmapped # <<>> THEN DictSet(acc.mapping, "unmapped", acc.unmapped)
    ELSE acc.mapping

\* vscode_colors and the result are dicts; a bucket is a list of
\* (vscode_key, color) pairs.
map_vscode_to_base16(vscode_colors, base16_palette) ==
    WithUnmapped(MapLoop(vscode_colors, LookupLoop(base16_palette, <<>>),
                         [mapping |-> <<>>, unmapped |-> <<>>]))

(***************************************************************************)
(* scripts/template_generator.py                                           *)
(***************************************************************************)

RECURSIVE ColorMapLoop(_, _)
ColorMapLoop(items, color_map) ==
    IF items = <<>> THEN color_map
    ELSE ColorMapLoop(Tail(items),
             DictSet(color_map, normalize_color(items[1][2]), <<items[1][1], TRUE>>))

\* {normalized_color: (base16_key, True)}; threshold is not read.
build_color_to_base16_map(base16_palette, thr) ==
    ColorMapLoop(base16_palette, <<>>)

\* f"{{{{ {key} }}}}{alpha}"
Placeholder(key, alpha) == <<"{", "{", " ", key, " ", "}", "}">> \o alpha

\* `alpha = normalized[6:8]` under `if len(normalized) == 8`, else no suffix.
AlphaOf(normalized) ==
    IF Len(normalized) = 8 THEN Slice(normalized, 6, 8) ELSE <<>>

SentinelLiterals == { <<"#", "0", "0", "0", "0">>,
                      <<"#", "0", "0", "0", "0", "0", "0", "0", "0">> }

\* The `if delta_e is not None and delta_e <= threshold` block and the final
\* `return original_color`; closest is what find_closest_base16_color gave.
FuzzyMatch(c, closest, thr) ==
    IF closest.raised THEN [raised |-> TRUE, value |-> <<>>]
    ELSE IF closest.value.delta_e # <<>> /\ closest.value.delta_e[1] <= thr[1]
    THEN [raised |-> FALSE,
          value |-> Placeholder(closest.value.key, AlphaOf(normalize_color(c)))]
    ELSE [raised |-> FALSE, value |-> c]

\* replace_color_with_variable after the sentinel check; stripped is
\* strip_alpha(color).
MatchColor(c, stripped, color_map, base16_palette, thr, lib) ==
    IF DictHas(color_map, stripped)
    THEN [raised |-> FALSE,
          value |-> Placeholder(DictGet(color_map, stripped)[1],
                                AlphaOf(normalize_color(c)))]
    ELSE IF thr # <<>> /\ thr[1] > 0
    THEN FuzzyMatch(c, find_closest_base16_color(c, base16_palette, lib), thr)
    ELSE [raised |-> FALSE, value |-> c]

\* replace_color_with_variable without the sentinel check
replace_color_no_sentinel(c, color_map, base16_palette, thr, lib) ==
    IF Falsy(c) THEN [raised |-> FALSE, value |-> c]
    ELSE MatchColor(c, strip_alpha(c), color_map, base16_palette, thr, lib)

replace_color_with_variable(c, color_map, base16_palette, thr, lib) ==
    IF Falsy(c) THEN [raised |-> FALSE, value |-> c]
    ELSE IF Lower(c) \in SentinelLiterals THEN [raised |-> FALSE, value |-> c]
    ELSE MatchColor(c, strip_alpha(c), color_map, base16_palette, thr, lib)

(***************************************************************************)
(* JSON values.  One record shape for every kind of node:                  *)
(*   t = "str"    s    = the characters                                    *)
(*   t = "other"  s    = <<token>>: a number, true, false or null          *)
(*   t = "dict"   keys = the keys in order, kids = the values in order     *)
(*   t = "list"   kids = the items in order                                *)
(*   t = "none"   no document                                              *)
(***************************************************************************)

Str(s) == [t |-> "str", s |-> s, keys |-> <<>>, kids |-> <<>>]

Other(tok) == [t |-> "other", s |-> <<tok>>, keys |-> <<>>, kids |-> <<>>]

Dict(keys, kids) == [t |-> "dict", s |-> <<>>, keys |-> keys, kids |-> kids]

List(kids) == [t |-> "list", s |-> <<>>, keys |-> <<>>, kids |-> kids]

NoDoc == [t |-> "none", s |-> <<>>, keys |-> <<>>, kids |-> <<>>]

Returned(v) == [raised |-> FALSE, value |-> v]

Raised == [raised |-> TRUE, value |-> NoDoc]

HasKey(d, k) == \E i \in 1..Len(d.keys) : d.keys[i] = k

Item(d, k) == d.kids[CHOOSE i \in 1..Len(d.keys) : d.keys[i] = k]

\* `return replace_color_with_variable(...)` as a JSON string, r its result.
StrResult(r) == IF r.raised THEN Raised ELSE Returned(Str(r.value))

\* The dict or list a comprehension builds from the processed children rs of
\* value; an exception in any child leaves the comprehension.
Rebuild(value, rs) ==
    IF \E i \in 1..Len(rs) : rs[i].raised THEN Raised
    ELSE IF value.t = "dict"
    THEN Returned(Dict(value.keys, [i \in 1..Len(rs) |-> rs[i].value]))
    ELSE Returned(List([i \in 1..Len(rs) |-> rs[i].value]))

RECURSIVE process_theme_value(_, _, _, _, _)
process_theme_value(value, color_map, base16_palette, thr, lib) ==
    IF value.t = "str"
    THEN IF value.s # <<>> /\ value.s[1] = "#"
         THEN StrResult(replace_color_with_variable(value.s, color_map,
                                                    base16_palette, thr, lib))
         ELSE Returned(value)
    ELSE IF value.t \in {"dict", "list"}
    THEN Rebuild(value, [i \in 1..Len(value.kids) |->
                            process_theme_value(value.kids[i], color_map,
                                                base16_palette, thr, lib)])
    ELSE Returned(value)

\* template_data[key] = r, r the result of process_theme_value.
PutSection(template_data, key, r) ==
    IF r.raised THEN Raised
    ELSE Returned(Dict(Append(template_data.keys, key),
                       Append(template_data.kids, r.value)))

\* One `if key in theme_data:` block of generate_template that walks a
\* subtree into template_data; acc is template_data, or the exception an
\* earlier block raised.
WalkSection(acc, theme_data, key, color_map, base16_palette, thr, lib) ==
    IF acc.raised \/ ~HasKey(theme_data, key) THEN acc
    ELSE PutSection(acc.value, key,
                    process_theme_value(Item(theme_data, key), color_map,
                                        base16_palette, thr, lib))

\* PutMeta copying the theme's own value instead of the placeholder
PutMetaCopies(template_data, theme_data, key, meta) ==
    IF HasKey(theme_data, key)
    THEN Dict(Append(template_data.keys, key),
              Append(template_data.kids, Item(theme_data, key)))
    ELSE template_data

\* One `if key in theme_data:` block that writes a metadata placeholder.
PutMeta(template_data, theme_data, key, meta) ==
    IF HasKey(theme_data, key)
    THEN Dict(Append(template_data.keys, key),
              Append(template_data.kids, Str(Placeholder(meta, <<>>))))
    ELSE template_data

\* generate_template once color_map is built.
FillTemplate(theme_data, color_map, base16_palette, thr, lib) ==
    WalkSection(
        WalkSection(
            Returned(PutMeta(PutMeta(Dict(<<>>, <<>>), theme_data,
                                     "name", "theme_name"),
                             theme_data, "type", "theme_type")),
            theme_data, "colors", color_map, base16_palette, thr, lib),
        theme_data, "tokenColors", color_map, base16_palette, thr, lib)

generate_template(theme_data, base16_palette, thr, lib) ==
    FillTemplate(theme_data, build_color_to_base16_map(base16_palette, thr),
                 base16_palette, thr, lib)

(***************************************************************************)
(* scripts/theme_builder.py                                                *)
(***************************************************************************)

DefaultThemeName == <<"U", "n", "k", "n", "o", "w", "n", " ", "T", "h", "e", "m", "e">>

DefaultThemeType == <<"d", "a", "r", "k">>

\* The binding context: data is the palette source document, its name and
\* variant Optional.
parse_base16_palette(data) ==
    DictUpdate(<< <<"theme_name", IF data.name = <<>> THEN DefaultThemeName
                                  ELSE data.name[1]>>,
                  <<"theme_type", IF data.variant = <<>> THEN DefaultThemeType
                                  ELSE data.variant[1]>> >>,
               data.palette)

\* What "{{ name }}" renders to.  load_template builds Environment(...) with
\* no undefined=, so a name the context lacks is jinja2's default Undefined,
\* which renders as the empty string and raises nothing.
Resolve(name, palette_data) ==
    IF DictHas(palette_data, name) THEN DictGet(palette_data, name) ELSE <<>>

RECURSIVE RenderStr(_, _)
\* template.render on the text of one string: every "{{ name }}" is replaced,
\* every other character is copied.
RenderStr(s, palette_data) ==
    IF s = <<>> THEN <<>>
    ELSE IF Len(s) >= 7 /\ SubSeq(s, 1, 3) = <<"{", "{", " ">>
                        /\ SubSeq(s, 5, 7) = <<" ", "}", "}">>
    THEN Resolve(s[4], palette_data) \o RenderStr(SubSeq(s, 8, Len(s)), palette_data)
    ELSE <<s[1]>> \o RenderStr(Tail(s), palette_data)

RECURSIVE RenderNode(_, _)
RenderNode(node, palette_data) ==
    IF node.t = "str" THEN Str(RenderStr(node.s, palette_data))
    ELSE IF node.t = "dict"
    THEN Dict(node.keys, [i \in 1..Len(node.kids) |->
                            RenderNode(node.kids[i], palette_data)])
    ELSE IF node.t = "list"
    THEN List([i \in 1..Len(node.kids) |-> RenderNode(node.kids[i], palette_data)])
    ELSE node

\* render_theme on the template text format_jinja2_template wrote
\* (json.dumps of the template document); the result is the JSON document
\* the rendered text denotes.
render_theme(template_doc, palette_data) == RenderNode(template_doc, palette_data)

\* libs/exceptions.py: the FileNotFoundError subclass, whose message names
\* the path.
TemplateNotFoundError == "TemplateNotFoundError"

\* How a run of the theme builder stands: what it was asked (whether the
\* palette and the template paths exist), how it ended ("returned" or
\* "raised", with the exception type), what it printed as an error, and
\* whether it created the template environment, rendered and saved.
Run(palette_exists, template_exists, ended, error, printed, env, rendered, saved) ==
    [palette_exists |-> palette_exists, template_exists |-> template_exists,
     ended |-> ended, error |-> error, printed |-> printed, env |-> env,
     rendered |-> rendered, saved |-> saved]

NotRun == Run(TRUE, TRUE, "no", <<>>, <<>>, FALSE, FALSE, FALSE)

\* load_template: raises before Environment(...) when the path is missing.
load_template(template_exists, template_doc) ==
    IF ~template_exists
    THEN [raised |-> TRUE, error |-> <<TemplateNotFoundError>>, env |-> FALSE,
          value |-> NoDoc]
    ELSE [raised |-> FALSE, error |-> <<>>, env |-> TRUE, value |-> template_doc]

\* main after both `exists()` checks passed: nothing catches what
\* load_template raises; otherwise render_theme and save_theme follow.
LoadRenderSave(loaded) ==
    IF loaded.raised
    THEN Run(TRUE, TRUE, "raised", loaded.error, <<>>, loaded.env, FALSE, FALSE)
    ELSE Run(TRUE, TRUE, "returned", <<>>, <<>>, loaded.env, TRUE, TRUE)

\* main of the theme builder: the two `if not ...exists()` blocks print and
\* return; then parse_base16_palette, load_template, render_theme,
\* save_theme.  at_load is what exists() answers inside load_template.
BuilderMain(palette_exists, template_exists, at_load, template_doc) ==
    IF ~palette_exists
    THEN Run(FALSE, template_exists, "returned", <<>>,
             <<"Palette file not found">>, FALSE, FALSE, FALSE)
    ELSE IF ~template_exists
    THEN Run(TRUE, FALSE, "returned", <<>>,
             <<"Template file not found">>, FALSE, FALSE, FALSE)
    ELSE LoadRenderSave(load_template(at_load, template_doc))

(***************************************************************************)
(* scripts/fetcher.py                                                      *)
(***************************************************************************)

\* Number of concurrent downloads: the default of download_files_batch.
BATCH_SIZE == 10

\* What client.get, raise_for_status and the write can raise.
Failures == {"RequestError", "HTTPStatusError", "OSError"}

\* `except Exception as exc`: the handler catches a request error only.
CatchesRequestOnly(kind) == kind = "RequestError"

\* `except Exception as exc`: every failure of a download is an Exception.
Catches(kind) == kind \in Failures

\* trio.Semaphore always serves.
AcquiresAlways(value) == TRUE

\* trio.Semaphore.acquire goes on only while the value is positive.
Acquires(value) == value > 0

\* The tasks a cancelled nursery reaches: everything not finished.
Cancelled(i) ==
    [j \in DOMAIN task |->
        IF j = i THEN "raised"
        ELSE IF task[j] = "done" THEN "done" ELSE "cancelled"]

Holding == {i \in DOMAIN task : task[i] = "requesting"}

\* The bar is left as it was.
BarKept(n) == n

\* `finally: bar.update(1)`
BarUpdate(n) == n + 1

(***************************************************************************)
(* Inputs                                                                  *)
(***************************************************************************)

\* Largest threshold given on the command line, and largest Delta E the
\* colour library answers for two different colours.
MaxThreshold == 2

MaxDeltaE == 2

SlotKeys == {"base00", "base0A"}

Rose == <<"#", "e", "a", "9", "a", "9", "7">>

RoseUpper == <<"#", "E", "A", "9", "A", "9", "7">>

RoseAlpha == <<"#", "e", "a", "9", "a", "9", "7", "e", "6">>

RoseAlphaUpper == <<"#", "e", "a", "9", "a", "9", "7", "E", "6">>

RoseNear == <<"#", "e", "a", "9", "a", "9", "8">>

RoseNearAlpha == <<"#", "e", "a", "9", "a", "9", "8", "8", "0">>

Black == <<"#", "0", "0", "0", "0", "0", "0">>

Transparent4 == <<"#", "0", "0", "0", "0">>

Transparent8 == <<"#", "0", "0", "0", "0", "0", "0", "0", "0">>

NotHex == <<"#", "g", "g", "g", "g", "g", "g">>

NotHexShort == <<"#", "g", "g">>

RoseBare == <<"e", "a", "9", "a", "9", "7">>

\* Not a colour literal: a blank follows the '#'.
HashBlank == <<"#", " ", "E", "A", "9", "A", "9", "7">>

\* As far from RoseNear as Rose is, on its other side.
RoseOff == <<"#", "e", "a", "9", "a", "9", "9">>

PaletteColors == {Rose, RoseUpper, RoseAlphaUpper, Black}

\* Strings that start with '#': the colour candidates of a theme.
ColorLiterals == {Rose, RoseUpper, RoseAlpha, RoseAlphaUpper, RoseNear,
                  RoseNearAlpha, Black, Transparent4, Transparent8, NotHex,
                  NotHexShort}

ColorInputs == ColorLiterals \cup {RoseBare, HashBlank, <<>>, None}

\* A literal of nine characters after the '#': one more than RRGGBBAA.
RoseLong == <<"#", "e", "a", "9", "a", "9", "7", "e", "6", "f">>

StripInputs == ColorInputs \cup {RoseLong}

KeyOrders ==
    {ks \in UNION {[1..n -> SlotKeys] : n \in 0..Cardinality(SlotKeys)} :
        \A i, j \in 1..Len(ks) : i # j => ks[i] # ks[j]}

\* Two slots at one RGB distance from RoseNear.
TiePalette == << <<"base00", Rose>>, <<"base0A", RoseOff>> >>

Palettes ==
    UNION {{[i \in 1..Len(ks) |-> <<ks[i], vs[i]>>] :
               vs \in [1..Len(ks) -> PaletteColors]} : ks \in KeyOrders}
    \cup {TiePalette}

Thresholds == {<<>>} \cup {<<t>> : t \in (-1)..MaxThreshold}

\* The pairs of different colours delta_e_distance can be asked about when
\* the colours of `colors` are matched against palette p.
ColorPairs(colors, p) ==
    {pr \in {<<CssColor(strip_alpha(c)), CssColor(strip_alpha(p[i][2]))>> :
                c \in {x \in colors : IsCssHex(strip_alpha(x))},
                i \in {j \in 1..Len(p) : IsCssHex(strip_alpha(p[j][2]))}} :
        pr[1] # pr[2]}

Oracles(colors, p) == [ColorPairs(colors, p) -> 1..MaxDeltaE]

ThemeName == <<"R", "o", "s", "e">>

Dark == <<"d", "a", "r", "k">>

TopLevel(key, c) ==
    CASE key = "name" -> Str(ThemeName)
      [] key = "type" -> Str(Dark)
      [] key = "colors" ->
            Dict(<<"editor.background", "#accent">>, <<Str(c), Str(Rose)>>)
      [] key = "tokenColors" ->
            List(<<Dict(<<"scope", "settings">>,
                        <<Str(<<"c", "o", "m", "m", "e", "n", "t">>),
                          Dict(<<"foreground", "fontStyle">>,
                               <<Str(c), Str(<<"b", "o", "l", "d">>)>>)>>),
                   Other("1")>>)
      [] OTHER -> Other("true")

MkTheme(keys, c) == Dict(keys, [i \in 1..Len(keys) |-> TopLevel(keys[i], c)])

ClosedKeys == <<"name", "type", "colors", "tokenColors">>

TopKeySets == { <<>>, <<"colors">>, <<"type", "tokenColors">>,
                <<"$schema", "name", "colors", "semanticHighlighting">> }

\* A theme string written in template syntax, as the theme of a template
\* language's grammar can hold; it does not start with '#'.
Mustache == <<"{", "{", " ", "expr", " ", "}", "}">>

ThemeDocs ==
    {MkTheme(ClosedKeys, c) : c \in ColorLiterals \cup {RoseBare, Mustache}}
    \cup {MkTheme(ks, RoseAlphaUpper) : ks \in TopKeySets}

RECURSIVE Strings(_)
\* Every string value of a document.
Strings(node) ==
    IF node.t = "str" THEN {node.s}
    ELSE UNION {Strings(node.kids[i]) : i \in 1..Len(node.kids)}

Front(q) == SubSeq(q, 1, Len(q) - 1)

\* The palette source documents a template is bound to: the palette it was
\* generated from, or that palette without its last slot.
BindingSources(p) ==
    {[name |-> <<ThemeName>>, variant |-> <<Dark>>, palette |-> q] :
        q \in {p} \cup (IF p = <<>> THEN {} ELSE {Front(p)})}

NoSource == [name |-> <<>>, variant |-> <<>>, palette |-> <<>>]

Light == <<"l", "i", "g", "h", "t">>

Author == <<"m", "v", "l", "l", "o", "w">>

\* What a palette source can hold beyond the slots of p: a mapping entry
\* named like a metadata key, or one that is no slot at all.
SourcePalettes(p) ==
    {p, Append(p, <<"theme_name", Rose>>), Append(p, <<"theme_type", Black>>),
     Append(p, <<"scheme", Rose>>)}

\* The palette source documents yaml.safe_load can give: name and variant
\* Optional, the nested palette, and the other top-level keys in `extra`.
SourceDocs(p) ==
    {[name |-> n, variant |-> v, palette |-> q, extra |-> e] :
        n \in {<<>>, <<ThemeName>>}, v \in {<<>>, <<Light>>},
        q \in SourcePalettes(p),
        e \in {<<>>, << <<"author", Author>>, <<"slug", ThemeName>> >>}}

\* The flattened theme maps parse_vscode_theme gives the analyzer: a colour
\* of the editor and a token colour with alpha or a transparent token.
FlatThemes ==
    {<< <<"colors.editor.background", c1>>,
        <<"tokenColors[comment].foreground", c2>> >> :
        c1 \in ColorLiterals, c2 \in {RoseAlphaUpper, Transparent4, Transparent8}}

\* A flat map as a document: one string value under each key.
FlatDoc(flat) ==
    Dict([i \in 1..Len(flat) |-> flat[i][1]], [i \in 1..Len(flat) |-> Str(flat[i][2])])

\* The palette file the builder is pointed at: the source document of p.
PaletteFile(p) == [name |-> <<ThemeName>>, variant |-> <<Dark>>, palette |-> p]

\* Largest number of files in a batch, and largest cap besides the default.
MaxFiles == 3

MaxBatch == 2

FileNames == [i \in 1..MaxFiles |-> <<"theme", i, ".yaml">>]

\* The lists fetch_dir_contents gives, cut by --limit.
FileLists == {SubSeq(FileNames, 1, n) : n \in 0..MaxFiles}

Caps == (1..MaxBatch) \cup {BATCH_SIZE}

\* No batch download is under way.
NoBatch ==
    /\ files = <<>>
    /\ batch = BATCH_SIZE
    /\ semaphore = 0
    /\ task = <<>>
    /\ outcome = <<>>
    /\ bar = 0
    /\ reported = {}
    /\ written = {}
    /\ nursery = "idle"

\* No tool is running.
NoTool ==
    /\ palette = <<>>
    /\ threshold = <<>>
    /\ deltaE = <<>>
    /\ op = "none"
    /\ color = <<>>
    /\ result = Returned(<<>>)
    /\ theme = NoDoc
    /\ template = Returned(NoDoc)
    /\ binding = NoSource
    /\ output = NoDoc
    /\ builder = NotRun

(***************************************************************************)
(* The tools as a state machine: the inputs are loaded, then one function  *)
(* is applied to them.                                                     *)
(***************************************************************************)

Init ==
    /\ palette \in Palettes
    /\ threshold \in Thresholds
    /\ deltaE = <<>>
    /\ op = "none"
    /\ color = <<>>
    /\ result = Returned(<<>>)
    /\ theme = NoDoc
    /\ template = Returned(NoDoc)
    /\ binding = NoSource
    /\ output = NoDoc
    /\ builder = NotRun
    /\ NoBatch

NormalizeColor ==
    /\ op = "none"
    /\ \E c \in ColorInputs :
          /\ color' = c
          /\ result' = Returned(normalize_color(c))
    /\ op' = "normalize_color"
    /\ UNCHANGED <<palette, threshold, deltaE, theme, template, binding, output>>
    /\ UNCHANGED <<builder, fetchVars>>

HexToRgb ==
    /\ op = "none"
    /\ \E c \in ColorInputs :
          /\ color' = c
          /\ result' = hex_to_rgb(c)
    /\ op' = "hex_to_rgb"
    /\ UNCHANGED <<palette, threshold, deltaE, theme, template, binding, output>>
    /\ UNCHANGED <<builder, fetchVars>>

FindClosest ==
    /\ op = "none"
    /\ UNCHANGED <<palette, threshold, theme, template, binding, output>>
    /\ \E c \in ColorLiterals : \E lib \in Oracles({c}, palette) :
          /\ color' = c
          /\ deltaE' = lib
          /\ result' = find_closest_base16_color(c, palette, lib)
    /\ op' = "find_closest_base16_color"
    /\ UNCHANGED <<builder, fetchVars>>

ReplaceColor ==
    /\ op = "none"
    /\ UNCHANGED <<palette, threshold, theme, template, binding, output>>
    /\ \E c \in ColorLiterals : \E lib \in Oracles({c}, palette) :
          /\ color' = c
          /\ deltaE' = lib
          /\ result' = replace_color_with_variable(c,
                          build_color_to_base16_map(palette, threshold),
                          palette, threshold, lib)
    /\ op' = "replace_color_with_variable"
    /\ UNCHANGED <<builder, fetchVars>>

GenerateTemplate ==
    /\ op = "none"
    /\ UNCHANGED <<palette, threshold, color, result, binding, output>>
    /\ \E th \in ThemeDocs :
          \E lib \in Oracles(Strings(th), palette) :
             /\ theme' = th
             /\ deltaE' = lib
             /\ template' = generate_template(th, palette, threshold, lib)
    /\ op' = "generate_template"
    /\ UNCHANGED <<builder, fetchVars>>

RenderTheme ==
    /\ op = "generate_template"
    /\ ~template.raised
    /\ \E src \in BindingSources(palette) :
          /\ binding' = src
          /\ output' = render_theme(template.value, parse_base16_palette(src))
    /\ op' = "render_theme"
    /\ UNCHANGED <<palette, threshold, deltaE, color, result, theme, template>>
    /\ UNCHANGED <<builder, fetchVars>>

ParsePalette ==
    /\ op = "none"
    /\ \E src \in SourceDocs(palette) :
          /\ binding' = src
          /\ result' = Returned(parse_base16_palette(src))
    /\ op' = "parse_base16_palette"
    /\ UNCHANGED <<palette, threshold, deltaE, color, theme, template, output>>
    /\ UNCHANGED <<builder, fetchVars>>

\* The template file the builder is pointed at: the template of the
\* complete theme in Rose, generated from palette p without a threshold.
TemplateFile(p) == generate_template(MkTheme(ClosedKeys, Rose), p, <<>>, <<>>).value

LoadTemplate ==
    /\ op = "none"
    /\ \E template_exists \in BOOLEAN :
          builder' = Run(TRUE, template_exists,
                         IF template_exists THEN "returned" ELSE "raised",
                         load_template(template_exists, TemplateFile(palette)).error,
                         <<>>,
                         load_template(template_exists, TemplateFile(palette)).env,
                         FALSE, FALSE)
    /\ op' = "load_template"
    /\ UNCHANGED <<palette, threshold, deltaE, color, result, theme, template,
                   binding, output>>
    /\ UNCHANGED fetchVars

\* One run of the builder's main.  The file system answers each exists()
\* when it is asked: a template seen by main can be gone when load_template
\* looks again.
BuildTheme ==
    /\ op = "none"
    /\ \E palette_exists, template_exists, at_load \in BOOLEAN :
          /\ at_load => template_exists
          /\ builder' = BuilderMain(palette_exists, template_exists, at_load,
                                    TemplateFile(palette))
    /\ binding' = IF builder'.rendered THEN PaletteFile(palette) ELSE binding
    /\ output' = IF builder'.rendered
                 THEN render_theme(TemplateFile(palette),
                                   parse_base16_palette(PaletteFile(palette)))
                 ELSE output
    /\ op' = "main"
    /\ UNCHANGED <<palette, threshold, deltaE, color, result, theme, template>>
    /\ UNCHANGED fetchVars

MapVscode ==
    /\ op = "none"
    /\ \E flat \in FlatThemes :
          /\ theme' = FlatDoc(flat)
          /\ result' = Returned(map_vscode_to_base16(flat, palette))
    /\ op' = "map_vscode_to_base16"
    /\ UNCHANGED <<palette, threshold, deltaE, color, template, binding, output,
                   builder>>
    /\ UNCHANGED fetchVars

BuildColorMap ==
    /\ op = "none"
    /\ result' = Returned(build_color_to_base16_map(palette, threshold))
    /\ op' = "build_color_to_base16_map"
    /\ UNCHANGED <<palette, threshold, deltaE, color, theme, template, binding,
                   output, builder>>
    /\ UNCHANGED fetchVars

StripAlpha ==
    /\ op = "none"
    /\ \E c \in StripInputs :
          /\ color' = c
          /\ result' = Returned(strip_alpha(c))
    /\ op' = "strip_alpha"
    /\ UNCHANGED <<palette, threshold, deltaE, theme, template, binding, output>>
    /\ UNCHANGED <<builder, fetchVars>>

Next ==
    \/ NormalizeColor
    \/ HexToRgb
    \/ FindClosest
    \/ ReplaceColor
    \/ GenerateTemplate
    \/ RenderTheme
    \/ ParsePalette
    \/ LoadTemplate
    \/ BuildTheme
    \/ MapVscode
    \/ BuildColorMap
    \/ StripAlpha

Spec == Init /\ [][Next]_vars

(***************************************************************************)
(* The batch download as a state machine: download_files_batch starts one  *)
(* task per file; a task runs from one await to the next in one step.      *)
(***************************************************************************)

InitFetch ==
    /\ NoTool
    /\ files \in FileLists
    /\ batch \in Caps
    /\ semaphore = 0
    /\ task = <<>>
    /\ outcome = <<>>
    /\ bar = 0
    /\ reported = {}
    /\ written = {}
    /\ nursery = "idle"

\* download_files_batch up to the end of the for loop: the semaphore is
\* made and every download_file task is started.
StartBatch ==
    /\ nursery = "idle"
    /\ semaphore' = batch
    /\ task' = [i \in 1..Len(files) |-> "spawned"]
    /\ outcome' = [i \in 1..Len(files) |-> "none"]
    /\ nursery' = "open"
    /\ UNCHANGED <<files, batch, bar, reported, written>>
    /\ UNCHANGED toolVars

\* `async with semaphore:` entered; the task goes on to client.get.
Acquire(i) ==
    /\ nursery = "open"
    /\ task[i] = "spawned"
    /\ Acquires(semaphore)
    /\ semaphore' = semaphore - 1
    /\ task' = [task EXCEPT ![i] = "requesting"]
    /\ UNCHANGED <<files, batch, outcome, bar, reported, written, nursery>>
    /\ UNCHANGED toolVars

\* The response came and the file was written: finally, then the release.
Save(i) ==
    /\ nursery = "open"
    /\ task[i] = "requesting"
    /\ outcome' = [outcome EXCEPT ![i] = "saved"]
    /\ written' = written \cup {i}
    /\ bar' = BarUpdate(bar)
    /\ semaphore' = semaphore + 1
    /\ task' = [task EXCEPT ![i] = "done"]
    /\ UNCHANGED <<files, batch, reported, nursery>>
    /\ UNCHANGED toolVars

\* The request, the status or the write failed.  Caught, the error is
\* printed for this file; not caught, it leaves the task and the nursery
\* cancels the tasks still running and raises.
Fail(i) ==
    /\ nursery = "open"
    /\ task[i] = "requesting"
    /\ \E kind \in Failures :
          /\ outcome' = [outcome EXCEPT ![i] = kind]
          /\ IF Catches(kind)
             THEN /\ reported' = reported \cup {i}
                  /\ task' = [task EXCEPT ![i] = "done"]
                  /\ bar' = BarUpdate(bar)
                  /\ semaphore' = semaphore + 1
                  /\ nursery' = nursery
             ELSE /\ reported' = reported
                  /\ task' = Cancelled(i)
                  /\ bar' = bar + Cardinality(Holding)
                  /\ semaphore' = semaphore + Cardinality(Holding)
                  /\ nursery' = "raised"
    /\ UNCHANGED <<files, batch, written>>
    /\ UNCHANGED toolVars

\* Every task has finished: the nursery block, the bar and the client are
\* left and download_files_batch returns.
FinishBatch ==
    /\ nursery = "open"
    /\ \A i \in DOMAIN task : task[i] = "done"
    /\ nursery' = "returned"
    /\ UNCHANGED <<files, batch, semaphore, task, outcome, bar, reported, written>>
    /\ UNCHANGED toolVars

NextFetch ==
    \/ StartBatch
    \/ \E i \in DOMAIN task : Acquire(i)
    \/ \E i \in DOMAIN task : Save(i)
    \/ \E i \in DOMAIN task : Fail(i)
    \/ FinishBatch

SpecFetch == InitFetch /\ [][NextFetch]_vars

\* What the run guarantees: trio runs every task that can run, its
\* semaphore serves the waiting tasks, and every request returns or fails
\* (the client has a timeout).
FairFetch ==
    /\ WF_vars(StartBatch)
    /\ WF_vars(FinishBatch)
    /\ \A i \in 1..MaxFiles :
          /\ WF_vars(i \in DOMAIN task /\ Acquire(i))
          /\ WF_vars(i \in DOMAIN task /\ (Save(i) \/ Fail(i)))

SpecFetchLive == SpecFetch /\ FairFetch

(***************************************************************************)
(* Properties                                                              *)
(***************************************************************************)

\* A colour literal as the normaliser's contract reads it: None, the empty
\* string, or hex digits of any letter case after an optional '#'.
IsColorLiteral(c) ==
    \/ Falsy(c)
    \/ AllHex(IF c[1] = "#" THEN Tail(c) ELSE c)

\* C9: normalising a colour literal twice gives what normalising it once
\* gives, and the normal form is lower-case and has no leading '#'.
NormalizeIdempotent ==
    (op = "normalize_color" /\ IsColorLiteral(color)) =>
        /\ ~result.raised
        /\ normalize_color(result.value) = result.value
        /\ Lower(result.value) = result.value
        /\ (result.value = <<>> \/ result.value[1] # "#")

\* C9 witness: an upper-case literal with '#' and alpha has been normalised.
NormalizeWitness ==
    /\ op = "normalize_color"
    /\ color = RoseAlphaUpper
    /\ result.value = <<"e", "a", "9", "a", "9", "7", "e", "6">>

\* C5: whatever the palette and the threshold, replace_color_with_variable
\* returns the sentinel transparent tokens "#0000" and "#00000000" unchanged.
SentinelPassthrough ==
    (op = "replace_color_with_variable" /\ color \in {Transparent4, Transparent8}) =>
        result = [raised |-> FALSE, value |-> color]

\* C5 witness: "#00000000" went through with black in the palette and a
\* positive threshold, where both the exact and the fuzzy step would match.
SentinelWitness ==
    /\ op = "replace_color_with_variable"
    /\ color = Transparent8
    /\ DictHas(build_color_to_base16_map(palette, threshold), strip_alpha(Black))
    /\ threshold = <<MaxThreshold>>
    /\ result.value = Transparent8

Range(f) == {f[i] : i \in DOMAIN f}

\* The top-level keys of the template format.
TemplateKeys == {"name", "type", "colors", "tokenColors"}

IsPlaceholderAt(s) ==
    /\ Len(s) >= 7
    /\ SubSeq(s, 1, 3) = <<"{", "{", " ">>
    /\ SubSeq(s, 5, 7) = <<" ", "}", "}">>

RECURSIVE PlaceholderNames(_)
\* The names inside the "{{ name }}" placeholders of a string.
PlaceholderNames(s) ==
    IF s = <<>> THEN {}
    ELSE IF IsPlaceholderAt(s)
    THEN {s[4]} \cup PlaceholderNames(SubSeq(s, 8, Len(s)))
    ELSE PlaceholderNames(Tail(s))

DocPlaceholders(node) == UNION {PlaceholderNames(s) : s \in Strings(node)}

\* The palette source document of the palette the template was made from.
OwnSource == [name |-> <<ThemeName>>, variant |-> <<Dark>>, palette |-> palette]

ExactIndex == build_color_to_base16_map(palette, threshold)

\* C10: the template has a top-level key exactly when the key is one of
\* name, type, colors, tokenColors and the theme has it; name and type are
\* always the metadata placeholders.
ClosedSchema ==
    (op = "generate_template" /\ ~template.raised) =>
        /\ \A k \in Range(theme.keys) \cup Range(template.value.keys) \cup TemplateKeys :
              HasKey(template.value, k) <=> (k \in TemplateKeys /\ HasKey(theme, k))
        /\ HasKey(theme, "name") =>
              Item(template.value, "name") = Str(Placeholder("theme_name", <<>>))
        /\ HasKey(theme, "type") =>
              Item(template.value, "type") = Str(Placeholder("theme_type", <<>>))

\* C10 witness: a theme with "$schema" and "semanticHighlighting" became a
\* template with name and colors alone.
ClosedSchemaWitness ==
    /\ op = "generate_template"
    /\ theme.keys = <<"$schema", "name", "colors", "semanticHighlighting">>
    /\ ~template.raised
    /\ template.value.keys = <<"name", "colors">>

\* C2: rendering a template with a placeholder whose name the binding
\* context lacks ends in an error: no document comes out of it.
UnresolvedPlaceholderFails ==
    (/\ op = "render_theme"
     /\ \E n \in DocPlaceholders(template.value) :
           ~DictHas(parse_base16_palette(binding), n))
        => output = NoDoc

\* The theme is one generated purely from the palette of src: the template
\* format's keys only, the source's name and variant, and every colour
\* literal the value of some slot.
PurelyFromPalette(th, src) ==
    /\ Range(th.keys) \subseteq TemplateKeys
    /\ HasKey(th, "name") =>
          Item(th, "name") = Str(DictGet(parse_base16_palette(src), "theme_name"))
    /\ HasKey(th, "type") =>
          Item(th, "type") = Str(DictGet(parse_base16_palette(src), "theme_type"))
    /\ \A s \in Strings(th) :
          (s # <<>> /\ s[1] = "#") =>
              \E i \in 1..Len(src.palette) : src.palette[i][2] = s

\* C1: generate_template without a threshold, then rendering against the
\* same palette, gives back the theme document exactly when every colour
\* literal of the theme is the value of some slot.
ExactMatchInverse ==
    (/\ op = "render_theme"
     /\ threshold = <<>>
     /\ binding = OwnSource
     /\ PurelyFromPalette(theme, binding))
        => output = theme

RECURSIVE SameShape(_, _)
\* b is a with nothing but '#'-prefixed string values rewritten.
SameShape(a, b) ==
    /\ a.t = b.t
    /\ a.keys = b.keys
    /\ Len(a.kids) = Len(b.kids)
    /\ \A i \in 1..Len(a.kids) : SameShape(a.kids[i], b.kids[i])
    /\ a.t = "other" => a = b
    /\ (a.t = "str" /\ (a.s = <<>> \/ a.s[1] # "#")) => a = b

Walked(v, thr) == process_theme_value(v, ExactIndex, palette, thr, deltaE)

Preserved(v, r) == ~r.raised /\ SameShape(v, r.value)

\* C3: for every tree, palette and threshold process_theme_value returns a
\* tree of the same nesting, keys and array order in which only
\* '#'-prefixed strings can differ.
StructurePreserved ==
    op = "generate_template" =>
        \A k \in {"colors", "tokenColors"} :
            HasKey(theme, k) => Preserved(Item(theme, k), Walked(Item(theme, k), threshold))

\* The tree walk keeps the structure whenever it returns.
StructurePreservedIfReturned ==
    op = "generate_template" =>
        \A k \in {"colors", "tokenColors"} :
            HasKey(theme, k) =>
                \/ Walked(Item(theme, k), threshold).raised
                \/ Preserved(Item(theme, k), Walked(Item(theme, k), threshold))

IsEightDigit(c) == Len(c) = 9 /\ c[1] = "#" /\ AllHex(Tail(c))

\* C4: an 8-digit literal h + a whose alpha-stripped form is in the exact
\* index under slot s becomes "{{ s }}" followed by a character for
\* character, and resolving the placeholder against the palette gives h.
AlphaRoundTrip ==
    (/\ op = "replace_color_with_variable"
     /\ IsEightDigit(color)
     /\ Lower(color) \notin SentinelLiterals
     /\ DictHas(ExactIndex, strip_alpha(color)))
        => /\ result = Returned(Placeholder(DictGet(ExactIndex, strip_alpha(color))[1],
                                            SubSeq(color, 8, 9)))
           /\ normalize_color(Resolve(DictGet(ExactIndex, strip_alpha(color))[1],
                                      parse_base16_palette(OwnSource)))
                 = Lower(SubSeq(color, 2, 7))

\* The fuzzy step substitutes: a positive threshold and a nearest slot with
\* a perceptual distance that is not null and at most the threshold.  A
\* colour that cannot be decoded has no perceptual distance.
Substitutes(closest, thr) ==
    /\ thr # <<>>
    /\ thr[1] > 0
    /\ ~closest.raised
    /\ closest.value.delta_e # <<>>
    /\ closest.value.delta_e[1] <= thr[1]

Nearest(c) == find_closest_base16_color(c, palette, deltaE)

\* C6: a colour with an exact match gets the exact slot; any other
\* non-sentinel colour gets the nearest slot's placeholder exactly when the
\* fuzzy step substitutes, and is returned unchanged otherwise.
FuzzyRule ==
    (op = "replace_color_with_variable" /\ Lower(color) \notin SentinelLiterals) =>
        result =
            IF DictHas(ExactIndex, strip_alpha(color))
            THEN Returned(Placeholder(DictGet(ExactIndex, strip_alpha(color))[1],
                                      AlphaOf(normalize_color(color))))
            ELSE IF Substitutes(Nearest(color), threshold)
            THEN Returned(Placeholder(Nearest(color).value.key,
                                      AlphaOf(normalize_color(color))))
            ELSE Returned(color)

\* The fuzzy rule as far as replace_color_with_variable returns.
FuzzyRuleIfReturned == result.raised \/ FuzzyRule

RECURSIVE Leaves(_)
RECURSIVE LeavesOf(_, _)
\* The string values of a document in document order.
Leaves(node) ==
    IF node.t = "str" THEN <<node.s>> ELSE LeavesOf(node.kids, 1)

LeavesOf(kids, i) ==
    IF i > Len(kids) THEN <<>> ELSE Leaves(kids[i]) \o LeavesOf(kids, i + 1)

\* The colour values a run of generate_template substituted: position and
\* placeholder text; none when the run raised.
SubstitutedIn(leaves) ==
    {<<i, leaves[i]>> : i \in {j \in 1..Len(leaves) :
        IsPlaceholderAt(leaves[j]) /\ leaves[j][4] \notin {"theme_name", "theme_type"}}}

Substituted(run) ==
    IF run.raised THEN {} ELSE SubstitutedIn(Leaves(run.value))

\* thr1 <= thr2, an absent threshold being the lowest.
AtMost(thr1, thr2) == thr1 = <<>> \/ (thr2 # <<>> /\ thr1[1] <= thr2[1])

\* What each threshold's run of generate_template substituted in the theme.
SubstitutedAt ==
    [t \in Thresholds |-> Substituted(generate_template(theme, palette, t, deltaE))]

Completes == [t \in Thresholds |-> ~generate_template(theme, palette, t, deltaE).raised]

Monotone(runs) ==
    \A t1, t2 \in Thresholds : AtMost(t1, t2) => runs[t1] \subseteq runs[t2]

MonotoneAmong(runs, done) ==
    \A t1, t2 \in Thresholds :
        (AtMost(t1, t2) /\ done[t2]) => runs[t1] \subseteq runs[t2]

\* C7: for one theme and palette, every colour value substituted with a
\* threshold is substituted, with the same slot, with any higher threshold.
ThresholdMonotone == op = "generate_template" => Monotone(SubstitutedAt)

\* Monotonicity among the runs that return.
ThresholdMonotoneIfReturned ==
    op = "generate_template" => MonotoneAmong(SubstitutedAt, Completes)

\* C8: no string makes the distance functions raise: hex_to_rgb gives
\* (0, 0, 0) for a string it cannot decode, find_closest_base16_color and
\* replace_color_with_variable return, and generate_template completes.
MalformedNeverRaises ==
    /\ (op = "hex_to_rgb" /\ ~AllHex(Slice(normalize_color(color), 0, 6))) =>
          result = [raised |-> FALSE, value |-> <<0, 0, 0>>]
    /\ op \in {"hex_to_rgb", "find_closest_base16_color",
               "replace_color_with_variable"} => ~result.raised
    /\ op = "generate_template" => ~template.raised

\* The sixteen slot names of a base16 palette.
Base16Slots ==
    {"base00", "base01", "base02", "base03", "base04", "base05", "base06",
     "base07", "base08", "base09", "base0A", "base0B", "base0C", "base0D",
     "base0E", "base0F"}

MetaOf(field, default) == IF field = <<>> THEN default ELSE field[1]

\* C11: the binding context holds theme_name and theme_type with the
\* source's name and variant (or the defaults), every palette slot of the
\* source with its value, and no other key.
BindingVocabulary ==
    op = "parse_base16_palette" =>
        /\ ~result.raised
        /\ DictHas(result.value, "theme_name")
        /\ DictGet(result.value, "theme_name") = MetaOf(binding.name, DefaultThemeName)
        /\ DictHas(result.value, "theme_type")
        /\ DictGet(result.value, "theme_type") = MetaOf(binding.variant, DefaultThemeType)
        /\ \A i \in 1..Len(binding.palette) :
              binding.palette[i][1] \in Base16Slots =>
                  /\ DictHas(result.value, binding.palette[i][1])
                  /\ DictGet(result.value, binding.palette[i][1]) = binding.palette[i][2]
        /\ Range(DictKeys(result.value)) \subseteq {"theme_name", "theme_type"} \cup Base16Slots

\* The context as far as the palette mapping holds slot names only.
BindingVocabularyOfSlots ==
    (op = "parse_base16_palette"
        /\ \A i \in 1..Len(binding.palette) : binding.palette[i][1] \in Base16Slots)
        => BindingVocabulary

\* C12: asked for a template path that does not exist (the palette path
\* being there), the builder ends with TemplateNotFoundError, raised before a template environment exists,
\* and renders and saves nothing.
MissingTemplateFatal ==
    (/\ op \in {"load_template", "main"}
     /\ builder.palette_exists
     /\ ~builder.template_exists) =>
        /\ builder.ended = "raised"
        /\ builder.error = <<TemplateNotFoundError>>
        /\ ~builder.env
        /\ ~builder.rendered
        /\ ~builder.saved

\* What holds of a missing template: load_template itself raises the named
\* error before the environment, and main renders and saves nothing.
MissingTemplateNothingSaved ==
    /\ (op = "load_template" /\ ~builder.template_exists) =>
          (builder.ended = "raised" /\ builder.error = <<TemplateNotFoundError>>)
    /\ (op \in {"load_template", "main"} /\ ~builder.template_exists) =>
          (~builder.env /\ ~builder.rendered /\ ~builder.saved)
    /\ (op = "main" /\ builder.ended = "raised") =>
          (builder.error = <<TemplateNotFoundError>> /\ ~builder.env /\ ~builder.saved)

\* The flattened entries the analyzer was given, as (key, colour) pairs.
FlatEntries == {<<theme.keys[i], theme.kids[i].s>> : i \in 1..Len(theme.keys)}

\* The palette lookup: normalised colour n belongs to the last slot whose
\* normalised colour is n.
InLookup(n) == \E i \in 1..Len(palette) : normalize_color(palette[i][2]) = n

LastSlot(n) ==
    palette[CHOOSE i \in 1..Len(palette) :
                /\ normalize_color(palette[i][2]) = n
                /\ \A j \in (i + 1)..Len(palette) :
                      normalize_color(palette[j][2]) # n][1]

\* The bucket an entry's colour belongs in.
BucketOf(c) ==
    IF InLookup(normalize_color(c)) THEN LastSlot(normalize_color(c))
    ELSE IF InLookup(strip_alpha(c)) THEN LastSlot(strip_alpha(c))
    ELSE "unmapped"

\* How many times entry e stands in bucket b of the analyzer's result.
TimesIn(b, e) ==
    IF DictHas(result.value, b)
    THEN Cardinality({i \in 1..Len(DictGet(result.value, b)) :
                         DictGet(result.value, b)[i] = e})
    ELSE 0

\* C13: every entry stands once in the bucket of its match (full form
\* first, alpha-stripped form second), in "unmapped" when it has none, and
\* in no other bucket; no bucket holds anything else.
Classified ==
    op = "map_vscode_to_base16" =>
        /\ \A e \in FlatEntries :
              \A b \in Range(DictKeys(result.value)) \cup {"unmapped", BucketOf(e[2])} :
                  TimesIn(b, e) = IF b = BucketOf(e[2]) THEN 1 ELSE 0
        /\ \A b \in Range(DictKeys(result.value)) :
              Range(DictGet(result.value, b)) \subseteq FlatEntries

\* C13 witness: one entry matched a slot through its alpha-stripped form
\* only, the other matched nothing and is the whole "unmapped" bucket.
ClassifiedWitness ==
    /\ op = "map_vscode_to_base16"
    /\ palette = << <<"base0A", Rose>> >>
    /\ result.value =
          << <<"base0A", << <<"tokenColors[comment].foreground", RoseAlphaUpper>> >> >>,
             <<"unmapped", << <<"colors.editor.background", RoseNear>> >> >> >>

\* C14: no entry whose colour is "#0000" or "#00000000" stands in the
\* bucket of a palette slot.
SentinelsUnmapped ==
    op = "map_vscode_to_base16" =>
        \A b \in Range(DictKeys(result.value)) \ {"unmapped"} :
            \A e \in Range(DictGet(result.value, b)) :
                Lower(e[2]) \notin SentinelLiterals

\* C15: at every moment at most `batch` download tasks hold the semaphore,
\* and the semaphore counts the free places.
BoundedConcurrency ==
    /\ Cardinality(Holding) <= batch
    /\ nursery = "open" => semaphore = batch - Cardinality(Holding)

\* C15 witness: the cap is reached while another file waits its turn.
BoundedConcurrencyWitness ==
    /\ nursery = "open"
    /\ Cardinality(Holding) = batch
    /\ \E i \in DOMAIN task : task[i] = "spawned"

\* C16: a failed download is reported for its file only; no task is
\* cancelled, the batch does not raise, and once it returns every file was
\* attempted and is either written or reported.
FailureIsolation ==
    /\ nursery # "raised"
    /\ \A i \in DOMAIN task : task[i] \notin {"cancelled", "raised"}
    /\ reported = {i \in DOMAIN outcome : outcome[i] \in Failures}
    /\ written = {i \in DOMAIN outcome : outcome[i] = "saved"}
    /\ nursery = "returned" =>
          /\ \A i \in 1..Len(files) : task[i] = "done" /\ outcome[i] # "none"
          /\ bar = Len(files)
          /\ reported \cup written = 1..Len(files)

\* C16 witness: the batch returned with the first file failed on its write
\* and every other file written.
FailureIsolationWitness ==
    /\ nursery = "returned"
    /\ Len(files) = MaxFiles
    /\ outcome[1] = "OSError"
    /\ reported = {1}
    /\ written = 2..MaxFiles

\* The slots whose colour has the alpha-stripped form of colour c.
SlotsLike(c) ==
    {palette[i][1] : i \in {j \in 1..Len(palette) :
                                strip_alpha(palette[j][2]) = strip_alpha(c)}}

\* C17: the exact index has the key strip_alpha(p) for the colour p of
\* every slot, so a colour whose alpha-stripped form is that of a slot's
\* colour gets the placeholder of such a slot.
IndexKeyedByStripped ==
    /\ op = "build_color_to_base16_map" =>
          \A i \in 1..Len(palette) :
              DictHas(result.value, strip_alpha(palette[i][2]))
    /\ (/\ op = "replace_color_with_variable"
        /\ Lower(color) \notin SentinelLiterals
        /\ SlotsLike(color) # {}) =>
          /\ ~result.raised
          /\ IsPlaceholderAt(result.value)
          /\ result.value[4] \in SlotsLike(color)

\* The index is keyed by the normalised form, alpha digits included.
IndexKeyedByNormalized ==
    op = "build_color_to_base16_map" =>
        /\ \A i \in 1..Len(palette) :
              DictHas(result.value, normalize_color(palette[i][2]))
        /\ \A k \in Range(DictKeys(result.value)) : InLookup(k)

\* C18: the exact index gives every normalised colour the last slot that
\* has it, template generation and the analyzer name that slot on an exact
\* match, and nothing raises.
LastWriteWins ==
    /\ op = "build_color_to_base16_map" =>
          /\ ~result.raised
          /\ \A i \in 1..Len(palette) :
                DictGet(result.value, normalize_color(palette[i][2]))
                    = <<LastSlot(normalize_color(palette[i][2])), TRUE>>
    /\ (/\ op = "replace_color_with_variable"
        /\ Lower(color) \notin SentinelLiterals
        /\ InLookup(strip_alpha(color))) =>
          result = Returned(Placeholder(LastSlot(strip_alpha(color)),
                                        AlphaOf(normalize_color(color))))
    /\ op = "map_vscode_to_base16" =>
          /\ ~result.raised
          /\ \A e \in FlatEntries :
                InLookup(normalize_color(e[2])) =>
                    TimesIn(LastSlot(normalize_color(e[2])), e) = 1

\* C18 witness: two slots hold one colour in different letter cases, and
\* the colour was given the later slot.
LastWriteWinsWitness ==
    /\ op = "replace_color_with_variable"
    /\ palette = << <<"base0A", Rose>>, <<"base00", RoseUpper>> >>
    /\ color = RoseAlpha
    /\ result.value = Placeholder("base00", <<"e", "6">>)

\* The RGB distance of the target to the colour of slot i, on the scale of
\* rgb_distance.
SlotDistance(i) == rgb_distance(color, palette[i][2]).value

\* Slot i is the first of the slots nearest to the target.
FirstNearest(i) ==
    /\ \A j \in 1..Len(palette) : SlotDistance(j) >= SlotDistance(i)
    /\ \A j \in 1..(i - 1) : SlotDistance(j) > SlotDistance(i)

\* C19: on an empty palette find_closest_base16_color returns ("unknown",
\* infinity, None); otherwise it returns the first of the slots at the
\* least RGB distance, and that distance.
NearestSlot ==
    op = "find_closest_base16_color" =>
        /\ ~result.raised
        /\ palette = <<>> =>
              result.value = [key |-> "unknown", rgb |-> Infinity, delta_e |-> <<>>]
        /\ palette # <<>> =>
              \E i \in 1..Len(palette) :
                  /\ FirstNearest(i)
                  /\ result.value.key = palette[i][1]
                  /\ result.value.rgb = SlotDistance(i)

\* The nearest-slot rule whenever the search returns.
NearestSlotIfReturned ==
    (op = "find_closest_base16_color" /\ result.raised) \/ NearestSlot

\* C20: on a non-empty palette the perceptual distance returned is
\* delta_e_distance of the target and the colour of the slot returned.
DeltaOfWinner ==
    (op = "find_closest_base16_color" /\ palette # <<>>) =>
        /\ ~result.raised
        /\ DictHas(palette, result.value.key)
        /\ result.value.delta_e
              = delta_e_distance(color, DictGet(palette, result.value.key), deltaE)

\* The winner's perceptual distance whenever the search returns.
DeltaOfWinnerIfReturned ==
    (op = "find_closest_base16_color" /\ result.raised) \/ DeltaOfWinner

\* Two slots tie on RGB distance and differ in perceptual distance; the
\* first was returned with its own perceptual distance.
TieReached ==
    /\ op = "find_closest_base16_color"
    /\ color = RoseNear
    /\ palette = TiePalette
    /\ delta_e_distance(color, Rose, deltaE) # delta_e_distance(color, RoseOff, deltaE)
    /\ result.value.key = "base00"

\* C21: strip_alpha returns the first 6 characters of the normalised form
\* when that form has 8 characters or more, and the normalised form itself
\* when it has fewer.
StripAlphaTruncates ==
    op = "strip_alpha" =>
        /\ ~result.raised
        /\ result.value =
              IF Len(normalize_color(color)) >= 8
              THEN Slice(normalize_color(color), 0, 6)
              ELSE normalize_color(color)

\* The truncation for every normalised form of at most 8 characters.
StripAlphaUpToEight ==
    (op = "strip_alpha" /\ Len(normalize_color(color)) > 8) \/ StripAlphaTruncates

\* The names a template generated from the palette may hold.
TemplateVocabulary == {"theme_name", "theme_type"} \cup Range(DictKeys(palette))

\* C22: every placeholder of a generated template names theme_name,
\* theme_type or a slot of the palette it was generated from, never
\* "unknown" and never the empty name, so the binding context of the same
\* palette resolves every placeholder of the template.
ClosedOverPalette ==
    (op = "generate_template" /\ ~template.raised) =>
        /\ DocPlaceholders(template.value) \subseteq TemplateVocabulary
        /\ "unknown" \notin DocPlaceholders(template.value)
        /\ "" \notin DocPlaceholders(template.value)
        /\ \A n \in DocPlaceholders(template.value) :
              DictHas(parse_base16_palette(OwnSource), n)

\* The placeholders generate_template put in place of a name, a type or a
\* colour, as against those the theme's own strings already held, are in
\* the vocabulary.
SubstitutedClosed ==
    (op = "generate_template" /\ ~template.raised) =>
        /\ (DocPlaceholders(template.value) \ DocPlaceholders(theme))
              \subseteq TemplateVocabulary
        /\ "unknown" \notin DocPlaceholders(template.value)
        /\ "" \notin DocPlaceholders(template.value)

\* The download tasks that have finished.
Finished == {i \in DOMAIN task : task[i] = "done"}

\* C23: the batch download ends; the bar always counts the finished tasks,
\* it moves by one and only when one more task finishes, and at the end it
\* stands at the number of files with every place of the semaphore free.
ExactProgress ==
    /\ <>(nursery = "returned")
    /\ [](bar = Cardinality(Finished))
    /\ [][bar' # bar =>
             /\ bar' = bar + 1
             /\ \E i \in DOMAIN task :
                   task[i] # "done" /\ Finished' = Finished \cup {i}]_vars
    /\ [](nursery = "returned" =>
             /\ semaphore = batch
             /\ bar = Len(files)
             /\ Finished = 1..Len(files))

\* C23 witness: the batch of the most files under the smallest cap has
\* returned with the last file failed on its status, the bar at the number
\* of files and the semaphore free.
ExactProgressWitness ==
    /\ nursery = "returned"
    /\ Len(files) = MaxFiles
    /\ batch = 1
    /\ outcome[MaxFiles] = "HTTPStatusError"
    /\ bar = MaxFiles
    /\ semaphore = batch

====
